---- MODULE Spec2Model ----
(***************************************************************************)
(* Model of scripts/md-to-docx.py: the command-line entry point, the       *)
(* line scanner parse_markdown_to_docx and the document elements it        *)
(* appends.  Text is a sequence of one-character strings; the document is  *)
(* the ordered sequence of block elements appended so far.                 *)
(***************************************************************************)
EXTENDS Integers, Sequences, FiniteSets, TLC

VARIABLES pc, argv, input_file, output_file, lines, i, in_code_block,
          code_lines, doc, output_state

vars == <<pc, argv, input_file, output_file, lines, i, in_code_block,
          code_lines, doc, output_state>>

(***************************************************************************)
(* Bounds of the model.                                                    *)
(***************************************************************************)
MaxLines == 3
MaxFenceLines == 4
MaxTableLines == 4
MaxBoldLines == 2
MaxPathLen == 6

(***************************************************************************)
(* String primitives of Python used by the script.                         *)
(***************************************************************************)
Whitespace == {" ", "\n", "\t"}
Digits == {"0", "1", "2", "3", "4", "5", "6", "7", "8", "9"}

\* s[k:] with a 0-based start k
Slice(s, k) == SubSeq(s, k + 1, Len(s))

\* str.startswith
StartsWith(s, p) == Len(s) >= Len(p) /\ SubSeq(s, 1, Len(p)) = p

\* `sub in s`
Contains(s, sub) ==
    \E k \in 1..(Len(s) - Len(sub) + 1) : SubSeq(s, k, k + Len(sub) - 1) = sub

\* the largest and the smallest element of a non-empty set of numbers
Max(S) == CHOOSE m \in S : \A k \in S : k <= m
Min(S) == CHOOSE m \in S : \A k \in S : m <= k

\* the positions of s that hold no whitespace
Inked(s) == {k \in 1..Len(s) : s[k] \notin Whitespace}

\* str.rstrip(): drop trailing whitespace
rstrip(s) == IF Inked(s) = {} THEN <<>> ELSE SubSeq(s, 1, Max(Inked(s)))

\* str.strip(): drop leading and trailing whitespace
strip(s) ==
    IF Inked(s) = {} THEN <<>> ELSE SubSeq(s, Min(Inked(s)), Max(Inked(s)))

\* the 1-based position of the first character c of s at or after k, else 0
find(s, c, k) ==
    IF \E j \in k..Len(s) : s[j] = c
    THEN Min({j \in k..Len(s) : s[j] = c})
    ELSE 0

\* the one value of a singleton set
Only(S) == CHOOSE x \in S : TRUE

\* str.split(sep) for a one-character separator: always at least one
\* segment, each running from after a separator to before the next one
split(s, sep) ==
    LET Segments(at) ==
            LET edge(m) ==
                    IF m = 0 THEN 0
                    ELSE IF m > Cardinality(at) THEN Len(s) + 1
                    ELSE Only({p \in at : Cardinality({q \in at : q <= p}) = m})
            IN  [m \in 1..(Cardinality(at) + 1) |->
                    SubSeq(s, edge(m - 1) + 1, edge(m) - 1)]
    IN  Only({Segments(at) : at \in {{k \in 1..Len(s) : s[k] = sep}}})

\* a faulty join: the parts run together without the separator
joinNoSeparator(parts, sep) ==
    LET F[k \in 0..Len(parts)] == IF k = 0 THEN <<>> ELSE F[k - 1] \o parts[k]
    IN  F[Len(parts)]

\* sep.join(parts)
join(parts, sep) ==
    LET F[k \in 0..Len(parts)] ==
            IF k = 0 THEN <<>>
            ELSE IF k = 1 THEN parts[1]
            ELSE F[k - 1] \o sep \o parts[k]
    IN  F[Len(parts)]

RECURSIVE replace(_, _, _)
\* str.replace(old, new): every non-overlapping occurrence, left to right
replace(s, old, new) ==
    IF Len(s) < Len(old) THEN s
    ELSE IF StartsWith(s, old) THEN new \o replace(Slice(s, Len(old)), old, new)
    ELSE <<s[1]>> \o replace(Tail(s), old, new)

\* f.readlines(): every line keeps its line terminator
readlines(content) == [k \in 1..Len(content) |-> content[k] \o <<"\n">>]


(***************************************************************************)
(* re.split(r'\*\*([^*]+)\*\*', line): the pieces between the matches      *)
(* alternate with the captured groups.                                     *)
(***************************************************************************)
\* length of the longest run of non-'*' characters starting at position q
NonStarRun(s, q) ==
    IF find(s, "*", q) = 0 THEN Len(s) - q + 1 ELSE find(s, "*", q) - q

\* the pattern matches at position p: ** , one or more non-'*', **
MatchesAt(s, p) ==
    /\ p + 1 <= Len(s) /\ s[p] = "*" /\ s[p + 1] = "*"
    /\ LET n == NonStarRun(s, p + 2)
       IN  /\ n >= 1
           /\ p + 3 + n <= Len(s)
           /\ s[p + 2 + n] = "*" /\ s[p + 3 + n] = "*"

\* the position of the leftmost match at or after p, else 0
search(s, p) ==
    IF \E q \in p..Len(s) : MatchesAt(s, q)
    THEN Min({q \in p..Len(s) : MatchesAt(s, q)})
    ELSE 0

\* the pieces of s: the text before a match, its group, and so on from the
\* end of the match
re_split(s) ==
    LET F[k \in 1..(Len(s) + 1)] ==
            IF search(s, k) = 0 THEN <<SubSeq(s, k, Len(s))>>
            ELSE <<SubSeq(s, k, search(s, k) - 1),
                   SubSeq(s, search(s, k) + 2,
                          search(s, k) + 1 + NonStarRun(s, search(s, k) + 2))>>
                     \o F[search(s, k) + 4 + NonStarRun(s, search(s, k) + 2)]
    IN  F[1]

\* re.match(r'^\d+\.', line)
MatchesOrdered(line) ==
    \E k \in 1..(Len(line) - 1) :
        /\ \A j \in 1..k : line[j] \in Digits
        /\ line[k + 1] = "."

(***************************************************************************)
(* Document elements (python-docx): a paragraph or heading holds runs, a   *)
(* table holds rows of cell texts.  Paragraph.add_run always adds a run;   *)
(* Document.add_heading adds one only for a non-empty text.                *)
(***************************************************************************)
Run(text, bold) == [text |-> text, bold |-> bold]

Element(kind, level, runs, cols, rows) ==
    [kind |-> kind, level |-> level, runs |-> runs, cols |-> cols, rows |-> rows]

\* doc.add_heading(text, level=level) as add_heading builds it
add_heading(text, level) ==
    Element("heading", level,
            IF text = <<>> THEN <<>> ELSE <<Run(text, FALSE)>>, 0, <<>>)

\* heading.runs[0] of add_heading is out of range
HeadingRaises(text, level) ==
    level \in {1, 2} /\ add_heading(text, level).runs = <<>>

add_paragraph(text) == Element("paragraph", 0, <<Run(text, FALSE)>>, 0, <<>>)

\* doc.add_paragraph() with no run: the horizontal-rule spacing
empty_paragraph == Element("paragraph", 0, <<>>, 0, <<>>)

add_code_block(code) == Element("code_block", 0, <<Run(code, FALSE)>>, 0, <<>>)

\* a faulty styling: bold on the even-indexed pieces (j % 2 == 0)
bold_paragraph_even(parts) ==
    Element("paragraph", 0,
            [j \in 1..Len(parts) |-> Run(parts[j], (j - 1) % 2 = 0)], 0, <<>>)

\* one run per piece of the split, bold when its 0-based index is odd
bold_paragraph(parts) ==
    Element("paragraph", 0,
            [j \in 1..Len(parts) |-> Run(parts[j], (j - 1) % 2 = 1)], 0, <<>>)

\* doc.add_table(rows=1, cols=num_cols), header filled, data rows added
add_table(num_cols, rows) == Element("table", 0, <<>>, num_cols, rows)

(***************************************************************************)
(* Line classification of the scanner.                                     *)
(***************************************************************************)
\* one-character stand-ins for the backquote (U+0060) and the bullet (U+2022)
BQ == "bq"
Bullet == "bullet"
Fence == <<BQ, BQ, BQ>>
Separator == <<"|", "-", "-", "-">>

\* [cell.strip() for cell in line.split('|')[1:-1]]
Cells(line) ==
    Only({[j \in 1..(Len(parts) - 2) |-> strip(parts[j + 1])] :
              parts \in {split(line, "|")}})

\* a faulty heading test: the prefixes tested without their space
HeadingLevelNoSpace(line) ==
    IF StartsWith(line, <<"#", "#", "#", "#">>) THEN 4
    ELSE IF StartsWith(line, <<"#", "#", "#">>) THEN 3
    ELSE IF StartsWith(line, <<"#", "#">>) THEN 2
    ELSE IF StartsWith(line, <<"#">>) THEN 1
    ELSE 0

\* the heading branches: the level, which is also the number of # cut off
HeadingLevel(line) ==
    IF StartsWith(line, <<"#", " ">>) THEN 1
    ELSE IF StartsWith(line, <<"#", "#", " ">>) THEN 2
    ELSE IF StartsWith(line, <<"#", "#", "#", " ">>) THEN 3
    ELSE IF StartsWith(line, <<"#", "#", "#", "#", " ">>) THEN 4
    ELSE 0

\* the branch of the if/elif chain a line outside a code block takes
Rule(line) ==
    IF HeadingLevel(line) > 0 THEN "heading"
    ELSE IF StartsWith(line, <<"-", "-", "-">>) THEN "horizontal_rule"
    ELSE IF StartsWith(line, <<"-", " ">>) \/ StartsWith(line, <<"*", " ">>)
         THEN "bullet"
    ELSE IF MatchesOrdered(line) THEN "ordered"
    ELSE IF Contains(line, <<"*", "*">>) THEN "bold"
    ELSE IF Contains(line, <<"|">>) /\ ~StartsWith(line, Separator) THEN "table"
    ELSE IF strip(line) # <<>> THEN "paragraph"
    ELSE "blank"

\* a faulty inner loop: a row of another cell count ends the table
DataRowsEndAtMismatch(ls, k0, num_cols) ==
    LET Row(k) == Contains(ls[k + 1], <<"|">>) /\ Len(Cells(ls[k + 1])) = num_cols
        rows[k \in k0..Len(ls)] ==
            IF k < Len(ls) /\ Row(k) THEN <<Cells(ls[k + 1])>> \o rows[k + 1]
            ELSE <<>>
        end[k \in k0..Len(ls)] ==
            IF k < Len(ls) /\ Row(k) THEN end[k + 1] ELSE k
    IN  [rows |-> rows[k0], i |-> end[k0], raised |-> FALSE]

\* the inner while loop from index k0 (0-based) on: the rows added, the
\* index reached, and whether row_cells[j] was indexed out of range
DataRows(ls, k0, num_cols) ==
    LET Pipe(k) == Contains(ls[k + 1], <<"|">>)
        Added(k) == Len(Cells(ls[k + 1])) = num_cols
        rows[k \in k0..Len(ls)] ==
            IF k < Len(ls) /\ Pipe(k)
            THEN (IF Added(k) THEN <<Cells(ls[k + 1])>> ELSE <<>>) \o rows[k + 1]
            ELSE <<>>
        end[k \in k0..Len(ls)] ==
            IF k < Len(ls) /\ Pipe(k) THEN end[k + 1] ELSE k
        raised[k \in k0..Len(ls)] ==
            /\ k < Len(ls) /\ Pipe(k)
            /\ \/ Added(k) /\ Len(Cells(ls[k + 1])) > num_cols
               \/ raised[k + 1]
    IN  [rows |-> rows[k0], i |-> end[k0], raised |-> raised[k0]]

(***************************************************************************)
(* Inputs: the lines a file may hold and the paths of the command line.    *)
(***************************************************************************)
L_fence == <<BQ, BQ, BQ>>
L_h1 == <<"#", " ", "T", "i", "t", "l", "e">>
L_h2 == <<"#", "#", " ", "S", "u", "b">>
L_h4 == <<"#", "#", "#", "#", " ", "d">>
L_h5 == <<"#", "#", "#", "#", "#", " ", "e">>
L_hempty == <<"#", " ">>
L_rule == <<"-", "-", "-">>
L_bullet == <<"-", " ", "i", "t", "e", "m">>
L_ordered == <<"1", ".", " ", "o">>
L_bold == <<"S", "o", "m", "e", " ", "*", "*", "b", "o", "l", "d", "*", "*", " ", "t", "e", "x", "t">>
L_unpaired == <<"*", "*", "u">>
L_blank == <<>>
L_header == <<"|", " ", "A", " ", "|", " ", "B", " ", "|">>
L_separator == <<"|", "-", "-", "-", "|", "-", "-", "-", "|">>
L_row == <<"|", " ", "1", " ", "|", " ", "2", " ", "|">>
L_line1 == <<"l", "i", "n", "e", "1">>
L_line2 == <<"l", "i", "n", "e", "2", " ">>
L_shortrow == <<"|", " ", "1", " ", "|">>
L_bareheader == <<"A", " ", "|", " ", "B">>
L_plain == <<"p">>
L_fencepipe == <<BQ, BQ, BQ, "|">>
L_bold2 == <<"*", "*", "a", "*", "*", "b", "*", "*">>
L_bold3 == <<"*", "*", "*", "b", "*", "*", "*">>
L_bold4 == <<"a", "*", "*", "*", "*", "b">>
L_bold5 == <<"*", "*", "a", "*", "*", " ", "*", "*", "b", "*", "*">>
L_bold6 == <<"*", "*", "a", "*", "b", "*", "*">>
Prog == <<"m", "d", "-", "t", "o", "-", "d", "o", "c", "x", ".", "p", "y">>
DocMd == <<"d", "o", "c", ".", "m", "d">>
DocDocx == <<"d", "o", "c", ".", "d", "o", "c", "x">>
OutDocx == <<"o", "u", "t", ".", "d", "o", "c", "x">>
ExtMd == <<".", "m", "d">>
ExtDocx == <<".", "d", "o", "c", "x">>

\* every sequence over S of length at most n
SeqsUpTo(S, n) == UNION {[1..k -> S] : k \in 0..n}

\* lines of every kind the scanner tells apart
BlockPool == {L_fence, L_h1, L_h2, L_h4, L_h5, L_hempty, L_rule, L_bullet,
              L_ordered, L_bold, L_blank, L_header}
\* fenced blocks and what may stand inside them
FencePool == {L_fence, L_line1, L_line2, L_h1}
\* tables: well formed, ragged, without outer pipes, followed by other lines
TablePool == {L_header, L_separator, L_row, L_shortrow, L_bareheader, L_plain,
              L_fencepipe}
\* lines holding ** markers, paired or not
BoldPool == {L_bold, L_unpaired, L_bold2, L_bold3, L_bold4, L_bold5, L_bold6}

\* the contents an input file may have
Inputs ==
    SeqsUpTo(BlockPool, MaxLines) \cup SeqsUpTo(FencePool, MaxFenceLines)
        \cup SeqsUpTo(TablePool, MaxTableLines) \cup SeqsUpTo(BoldPool, MaxBoldLines)

PathChars == {"d", "o", "c", ".", "m"}
Paths == SeqsUpTo(PathChars, MaxPathLen) \ {<<>>}

(***************************************************************************)
(* The program.                                                            *)
(***************************************************************************)
StartState ==
    /\ pc = "main"
    /\ input_file = <<>> /\ output_file = <<>>
    /\ lines = <<>> /\ i = 0 /\ in_code_block = FALSE /\ code_lines = <<>>
    /\ doc = <<>> /\ output_state = "untouched"

\* one conversion of doc.md, or a call without arguments
Init == StartState /\ argv \in {<<Prog>>, <<Prog, DocMd>>}

\* the command lines of the entry point
InitPath ==
    /\ StartState
    /\ argv \in {<<Prog>>, <<Prog, DocMd, OutDocx>>} \cup {<<Prog, p>> : p \in Paths}

scan_vars == <<lines, i, in_code_block, code_lines, doc>>

\* len(sys.argv) < 2: usage message, exit status 1
Usage ==
    /\ pc = "main" /\ Len(argv) < 2
    /\ pc' = "exit_usage"
    /\ UNCHANGED <<argv, input_file, output_file, scan_vars, output_state>>

\* the output path derived from the input path
derive_output(path) == replace(path, ExtMd, ExtDocx)

\* the entry point up to the call of parse_markdown_to_docx
Main ==
    /\ pc = "main" /\ Len(argv) >= 2
    /\ input_file' = argv[2]
    /\ output_file' = IF Len(argv) > 2 THEN argv[3] ELSE derive_output(argv[2])
    /\ pc' = "read"
    /\ UNCHANGED <<argv, scan_vars, output_state>>

\* a faulty order: the output is opened before the input fails to open
ReadFailsOutputOpened ==
    /\ pc = "read"
    /\ pc' = "input_unreadable"
    /\ output_state' = "partial"
    /\ UNCHANGED <<argv, input_file, output_file, scan_vars>>

\* open(md_file) or readlines raises: the error leaves the routine
ReadFails ==
    /\ pc = "read"
    /\ pc' = "input_unreadable"
    /\ UNCHANGED <<argv, input_file, output_file, scan_vars, output_state>>

\* Document(), readlines and the scanner state before the loop
Read ==
    /\ pc = "read"
    /\ \E content \in Inputs : lines' = readlines(content)
    /\ doc' = <<>> /\ i' = 0 /\ in_code_block' = FALSE /\ code_lines' = <<>>
    /\ pc' = "scan"
    /\ UNCHANGED <<argv, input_file, output_file, output_state>>

\* the loop condition holds
InLoop == pc = "scan" /\ i < Len(lines)

\* line = lines[i].rstrip() while the loop condition holds
CurrentLine == IF InLoop THEN {rstrip(lines[i + 1])} ELSE {}

frame == <<argv, input_file, output_file, lines, output_state>>

\* a faulty toggle: the closing fence keeps the buffer
FenceToggleKeepsBuffer ==
    \E line \in CurrentLine :
        /\ StartsWith(line, Fence)
        /\ IF in_code_block
           THEN /\ doc' = Append(doc, add_code_block(join(code_lines, <<"\n">>)))
                /\ in_code_block' = FALSE
           ELSE /\ in_code_block' = TRUE
                /\ doc' = doc
        /\ i' = i + 1
        /\ UNCHANGED <<pc, frame, code_lines>>

\* a line starting with the fence
FenceToggle ==
    \E line \in CurrentLine :
        /\ StartsWith(line, Fence)
        /\ IF in_code_block
           THEN /\ doc' = Append(doc, add_code_block(join(code_lines, <<"\n">>)))
                /\ code_lines' = <<>>
                /\ in_code_block' = FALSE
           ELSE /\ in_code_block' = TRUE
                /\ UNCHANGED <<doc, code_lines>>
        /\ i' = i + 1
        /\ UNCHANGED <<pc, frame>>

\* any other line while inside a code block
InCodeBlock ==
    \E line \in CurrentLine :
        /\ ~StartsWith(line, Fence) /\ in_code_block
        /\ code_lines' = Append(code_lines, line)
        /\ i' = i + 1
        /\ UNCHANGED <<pc, frame, in_code_block, doc>>

\* the line reaches the if/elif chain and takes branch r
Reaches(line, r) ==
    ~StartsWith(line, Fence) /\ ~in_code_block /\ Rule(line) = r

\* append element e and go to the next line
Emit(e) ==
    /\ doc' = Append(doc, e)
    /\ i' = i + 1
    /\ UNCHANGED <<pc, frame, in_code_block, code_lines>>

Heading ==
    \E line \in CurrentLine :
        /\ Reaches(line, "heading")
        /\ \E level \in {HeadingLevel(line)} :
              IF HeadingRaises(Slice(line, level + 1), level)
              THEN /\ pc' = "error"
                   /\ doc' = Append(doc, add_heading(Slice(line, level + 1), level))
                   /\ UNCHANGED <<frame, i, in_code_block, code_lines>>
              ELSE Emit(add_heading(Slice(line, level + 1), level))

\* a faulty rule: the horizontal rule is skipped like a blank line
HorizontalRuleSkipped ==
    \E line \in CurrentLine :
        /\ Reaches(line, "horizontal_rule")
        /\ i' = i + 1
        /\ UNCHANGED <<pc, frame, in_code_block, code_lines, doc>>

HorizontalRule ==
    \E line \in CurrentLine :
        Reaches(line, "horizontal_rule") /\ Emit(empty_paragraph)

BulletItem ==
    \E line \in CurrentLine :
        /\ Reaches(line, "bullet")
        /\ Emit(add_paragraph(<<Bullet, " ">> \o Slice(line, 2)))

OrderedItem ==
    \E line \in CurrentLine :
        Reaches(line, "ordered") /\ Emit(add_paragraph(line))

InlineBold ==
    \E line \in CurrentLine :
        /\ Reaches(line, "bold")
        /\ \E parts \in {re_split(line)} : Emit(bold_paragraph(parts))

\* the cells of the line at the table rule head a table
StartsTable(cells) ==
    /\ cells # <<>>
    /\ i + 1 < Len(lines) /\ StartsWith(lines[i + 2], Separator)

Table ==
    \E line \in CurrentLine :
        /\ Reaches(line, "table")
        /\ \E cells \in {Cells(line)} :
              /\ StartsTable(cells)
              /\ \E data \in {DataRows(lines, i + 2, Len(cells))} :
                    IF data.raised
                    THEN /\ pc' = "error"
                         /\ UNCHANGED <<frame, scan_vars>>
                    ELSE /\ doc' = Append(doc, add_table(Len(cells),
                                                         <<cells>> \o data.rows))
                         /\ i' = data.i
                         /\ UNCHANGED <<pc, frame, in_code_block, code_lines>>

\* a faulty chain: the pipe line falls on to the paragraph rule
TableFallThroughAsParagraph ==
    \E line \in CurrentLine :
        /\ Reaches(line, "table") /\ ~StartsTable(Cells(line))
        /\ Emit(add_paragraph(line))

\* a pipe line that starts no table: no branch below it runs
TableFallThrough ==
    \E line \in CurrentLine :
        /\ Reaches(line, "table") /\ ~StartsTable(Cells(line))
        /\ i' = i + 1
        /\ UNCHANGED <<pc, frame, in_code_block, code_lines, doc>>

Paragraph ==
    \E line \in CurrentLine :
        Reaches(line, "paragraph") /\ Emit(add_paragraph(line))

\* a faulty skip: the blank line is not stepped over
BlankNoAdvance ==
    \E line \in CurrentLine :
        /\ Reaches(line, "blank")
        /\ UNCHANGED vars

Blank ==
    \E line \in CurrentLine :
        /\ Reaches(line, "blank")
        /\ i' = i + 1
        /\ UNCHANGED <<pc, frame, in_code_block, code_lines, doc>>

\* one iteration of the while loop
ScanStep ==
    \/ FenceToggle \/ InCodeBlock \/ Heading \/ HorizontalRule \/ BulletItem
    \/ OrderedItem \/ InlineBold \/ Table \/ TableFallThrough \/ Paragraph
    \/ Blank

\* the loop condition fails
LoopExit ==
    /\ pc = "scan" /\ ~(i < Len(lines))
    /\ pc' = "save"
    /\ UNCHANGED <<frame, scan_vars>>

\* doc.save(docx_file) succeeds
Save ==
    /\ pc = "save"
    /\ output_state' = "saved"
    /\ pc' = "done"
    /\ UNCHANGED <<argv, input_file, output_file, scan_vars>>

\* doc.save(docx_file) raises, before or after it created the file
SaveFails ==
    /\ pc = "save"
    /\ output_state' \in {"untouched", "partial"}
    /\ pc' = "output_unwritable"
    /\ UNCHANGED <<argv, input_file, output_file, scan_vars>>

Next ==
    \/ Usage \/ Main \/ Read \/ ReadFails \/ ScanStep \/ LoopExit \/ Save
    \/ SaveFails

Spec == Init /\ [][Next]_vars

\* the loop runs on: no iteration and no loop exit waits on anything
FairSpec == Spec /\ WF_vars(ScanStep) /\ WF_vars(LoopExit)

\* the entry point alone, over the command lines
PathNext == Usage \/ Main
PathSpec == InitPath /\ [][PathNext]_vars


(***************************************************************************)
(* Notions the properties below are stated in.                             *)
(***************************************************************************)
\* line k (0-based) as the scanner sees it, and the current one
Stripped(k) == rstrip(lines[k + 1])
line == Stripped(i)

\* the current line is outside a code block and no rule before the table
\* rule takes it
AtTableRule ==
    /\ InLoop /\ ~in_code_block /\ ~StartsWith(line, Fence)
    /\ HeadingLevel(line) = 0
    /\ ~StartsWith(line, <<"-", "-", "-">>)
    /\ ~StartsWith(line, <<"-", " ">>) /\ ~StartsWith(line, <<"*", " ">>)
    /\ ~MatchesOrdered(line)
    /\ ~Contains(line, <<"*", "*">>)
    /\ Contains(line, <<"|">>) /\ ~StartsWith(line, Separator)

\* the line after the current one starts with |---
SeparatorFollows == i + 1 < Len(lines) /\ StartsWith(lines[i + 2], Separator)

\* number of contiguous lines holding a pipe from index k (0-based) on
PipeRun(k) ==
    CHOOSE n \in 0..(Len(lines) - k) :
        /\ \A j \in (k + 1)..(k + n) : Contains(lines[j], <<"|">>)
        /\ (k + n = Len(lines) \/ ~Contains(lines[k + n + 1], <<"|">>))

\* the table the header at the current line and the rows after its
\* separator describe
ExpectedTable ==
    LET header == Cells(line)
        n == PipeRun(i + 2)
        SameCount(c) == Len(c) = Len(header)
        cand == [j \in 1..n |-> Cells(lines[i + 2 + j])]
    IN  [kind |-> "table", level |-> 0, runs |-> <<>>, cols |-> Len(header),
         rows |-> <<header>> \o SelectSeq(cand, SameCount)]

\* the last element of the document after the step
Appended == doc'[Len(doc')]
\* the step appends exactly one element and keeps the earlier ones
AppendsOne == Len(doc') = Len(doc) + 1 /\ SubSeq(doc', 1, Len(doc)) = doc

\* the lines (0-based) that start with the fence, and the m-th of them
FenceLines == {k \in 0..(Len(lines) - 1) : StartsWith(Stripped(k), Fence)}
NthFence(m) ==
    Only({k \in FenceLines : Cardinality({j \in FenceLines : j <= k}) = m})
IsCodeBlock(e) == e.kind = "code_block"

\* C1 as stated: the fence lines of the input, paired in order, give the
\* code blocks of the scanned document, one per pair, each holding the
\* stripped lines between its two fence lines joined by newlines.
C1_AsStated ==
    pc = "save" =>
        LET blocks == SelectSeq(doc, IsCodeBlock)
            pairs == Cardinality(FenceLines) \div 2
        IN  /\ Len(blocks) = pairs
            /\ \A m \in 1..pairs :
                  LET o == NthFence(2 * m - 1)
                      c == NthFence(2 * m)
                  IN  blocks[m].runs[1].text =
                          join([j \in 1..(c - o - 1) |-> Stripped(o + j)], <<"\n">>)

\* C1, amended: the fence lines the scanner takes as the current line (a
\* table consumes the pipe lines after its separator, fence lines among
\* them) open and close the blocks.  A closing fence appends exactly one
\* code block whose content is the stripped lines strictly between the
\* opening and the closing fence, joined by newlines in order; a line
\* scanned inside a code block appends nothing; and no other step appends a
\* code block.
C1_FencedBlock ==
    [][InLoop =>
        /\ (in_code_block /\ StartsWith(line, Fence)) =>
              \E o \in 0..(i - 1) :
                  /\ StartsWith(Stripped(o), Fence)
                  /\ \A j \in (o + 1)..(i - 1) : ~StartsWith(Stripped(j), Fence)
                  /\ AppendsOne
                  /\ Appended.kind = "code_block"
                  /\ Len(Appended.runs) = 1
                  /\ LET between == [j \in 1..(i - o - 1) |-> Stripped(o + j)]
                         text == Appended.runs[1].text
                     IN  IF between = <<>> THEN text = <<>>
                         ELSE split(text, "\n") = between
        /\ (in_code_block /\ ~StartsWith(line, Fence)) => doc' = doc
        /\ (doc' # doc /\ Appended.kind = "code_block") =>
              (in_code_block /\ StartsWith(line, Fence))
    ]_vars

\* a code block of two lines was emitted from a fence that also held a
\* heading-like line, and nothing else was
C1_Witness ==
    /\ pc = "scan" /\ i = 4 /\ Len(lines) = 4
    /\ Stripped(1) = L_h1 /\ Stripped(2) = L_line1
    /\ Len(doc) = 1 /\ doc[1].kind = "code_block"
    /\ Contains(doc[1].runs[1].text, <<"\n">>)

\* C2 as stated: whenever a line at the table rule is followed by a
\* separator line, the step appends the table of its header cells and of the
\* rows of equal cell count among the contiguous pipe lines after the
\* separator, and stops at the first line without a pipe.
C2_AsStated ==
    [][(AtTableRule /\ SeparatorFollows) =>
            /\ AppendsOne
            /\ Appended = ExpectedTable
            /\ i' = i + 2 + PipeRun(i + 2)
    ]_vars

\* C2, amended: the same for a header with at least one cell; a header with
\* no cell starts no table: nothing is appended and one line is consumed.
C2_Table ==
    [][(AtTableRule /\ SeparatorFollows) =>
            IF Cells(line) # <<>>
            THEN /\ AppendsOne
                 /\ Appended = ExpectedTable
                 /\ Appended.cols = Len(Cells(line))
                 /\ Appended.rows[1] = Cells(line)
                 /\ i' = i + 2 + PipeRun(i + 2)
            ELSE doc' = doc /\ i' = i + 1
    ]_vars

\* a table whose ragged row was skipped and whose next row was kept
C2_Witness ==
    /\ pc = "scan" /\ i = 4
    /\ lines = readlines(<<L_header, L_separator, L_shortrow, L_row>>)
    /\ doc = <<add_table(2, <<Cells(L_header), Cells(L_row)>>)>>

\* the steps that append an element
EmittingStep ==
    \/ in_code_block /\ StartsWith(line, Fence)
    \/ /\ ~in_code_block /\ ~StartsWith(line, Fence)
       /\ \/ Rule(line) \in {"heading", "horizontal_rule", "bullet", "ordered",
                             "bold", "paragraph"}
          \/ AtTableRule /\ SeparatorFollows /\ Cells(line) # <<>>

\* C3 as stated: every step whose line matches a rule (any line but a blank
\* one outside a code block) appends exactly one element after the earlier
\* ones.
C3_AsStated ==
    [][(InLoop /\ (in_code_block \/ StartsWith(line, Fence)
                      \/ Rule(line) # "blank")) => AppendsOne]_vars

\* C3, amended: a step appends exactly one element when its line closes a
\* fence, is a heading, rule, list item, bold line or plain paragraph, or
\* starts a table; every other step (opening fence, line inside a fence,
\* blank line, pipe line starting no table) leaves the document as it is.
\* Either way the document before the step is a prefix of the one after.
C3_AppendOnly ==
    [][InLoop =>
          /\ IF EmittingStep THEN AppendsOne ELSE doc' = doc
          /\ Len(doc') >= Len(doc) /\ SubSeq(doc', 1, Len(doc)) = doc
    ]_vars

\* three lines scanned, two elements appended after one another
C3_Witness ==
    /\ pc = "scan" /\ i = 3 /\ Len(doc) = 2
    /\ doc[1].kind = "heading" /\ doc[2].kind = "paragraph"

\* C4: an unreadable input ends the run with the output untouched, and the
\* output is touched only once the whole input has been scanned.
C4_SaveAfterScan ==
    /\ pc = "input_unreadable" => output_state = "untouched"
    /\ output_state # "untouched" =>
          /\ pc \in {"done", "output_unwritable"}
          /\ i = Len(lines)
          /\ input_file # <<>>

\* the run failed on an unreadable input
C4_Witness == pc = "input_unreadable" /\ output_state = "untouched"

TrailingMdReplaced(path) ==
    IF Len(path) >= Len(ExtMd)
           /\ SubSeq(path, Len(path) - Len(ExtMd) + 1, Len(path)) = ExtMd
    THEN SubSeq(path, 1, Len(path) - Len(ExtMd)) \o ExtDocx
    ELSE path

\* C6: without an output argument the output path is the input path with
\* only a trailing .md replaced by .docx.
C6_TrailingExtension ==
    (pc = "read" /\ Len(argv) = 2) =>
        /\ output_file = TrailingMdReplaced(input_file)
        /\ (input_file = DocMd => output_file = DocDocx)

RECURSIVE Reassemble(_, _)
\* the text the runs came from: the bold ones between ** again
Reassemble(runs, k) ==
    IF k > Len(runs) THEN <<>>
    ELSE (IF runs[k].bold THEN <<"*", "*">> \o runs[k].text \o <<"*", "*">>
          ELSE runs[k].text) \o Reassemble(runs, k + 1)

\* C7: a line at the inline-bold rule appends one paragraph whose runs are
\* the pieces of the line in order, the odd-indexed ones (0-based) bold and
\* taken from between a pair of **, the others unstyled and holding no
\* further pair; "Some **bold** text" gives "Some ", bold "bold", " text".
C7_BoldRuns ==
    [][(InLoop /\ ~in_code_block /\ ~StartsWith(line, Fence)
            /\ HeadingLevel(line) = 0
            /\ ~StartsWith(line, <<"-", "-", "-">>)
            /\ ~StartsWith(line, <<"-", " ">>) /\ ~StartsWith(line, <<"*", " ">>)
            /\ ~MatchesOrdered(line)
            /\ Contains(line, <<"*", "*">>)) =>
          /\ AppendsOne
          /\ Appended.kind = "paragraph"
          /\ LET runs == Appended.runs
             IN  /\ Len(runs) % 2 = 1
                 /\ \A j \in 1..Len(runs) :
                       /\ runs[j].bold <=> ((j - 1) % 2 = 1)
                       /\ runs[j].bold =>
                             /\ runs[j].text # <<>>
                             /\ ~Contains(runs[j].text, <<"*">>)
                       /\ ~runs[j].bold =>
                             \A q \in 1..Len(runs[j].text) :
                                 ~MatchesAt(runs[j].text, q)
                 /\ Reassemble(runs, 1) = line
                 /\ line = L_bold =>
                       runs = <<Run(<<"S", "o", "m", "e", " ">>, FALSE),
                                Run(<<"b", "o", "l", "d">>, TRUE),
                                Run(<<" ", "t", "e", "x", "t">>, FALSE)>>
    ]_vars

\* a paragraph of five runs, two of them bold, was emitted
C7_Witness ==
    /\ pc = "scan" /\ Len(doc) >= 1
    /\ Len(doc[1].runs) = 5 /\ doc[1].runs[2].bold /\ doc[1].runs[4].bold

\* C8: outside a code block the buffer of code lines is empty.
C8_BufferOnlyInFence == ~in_code_block => code_lines = <<>>

\* a fence with content has been closed and flushed
C8_Witness ==
    /\ pc = "scan" /\ ~in_code_block /\ code_lines = <<>>
    /\ \E k \in 1..Len(doc) :
          doc[k].kind = "code_block" /\ doc[k].runs[1].text # <<>>

\* C9: a line at the table rule that no separator line follows appends
\* nothing and is stepped over by one.
C9_PipeLineDropped ==
    [][(AtTableRule /\ ~SeparatorFollows) => (doc' = doc /\ i' = i + 1)]_vars

\* a lone table row was scanned and left no element
C9_Witness ==
    /\ pc = "save" /\ lines = readlines(<<L_row, L_plain>>)
    /\ Len(doc) = 1 /\ doc[1] = add_paragraph(L_plain)

\* C10: every iteration moves the index forward, by one or, for a table, by
\* two plus the lines consumed as rows, never past the last line, and the
\* scan reaches the save with every line consumed.
C10_Terminates ==
    /\ [][InLoop =>
              /\ i' > i /\ i' <= Len(lines)
              /\ i' = IF AtTableRule /\ SeparatorFollows /\ Cells(line) # <<>>
                      THEN i + 2 + PipeRun(i + 2)
                      ELSE i + 1
       ]_vars
    /\ [](i <= Len(lines))
    /\ (pc = "scan") ~> (pc = "save" /\ i = Len(lines))

\* a scan with a table of two consumed rows reached the save
C10_Witness ==
    /\ pc = "save" /\ i = 4 /\ Len(lines) = 4
    /\ Len(doc) = 1 /\ doc[1].kind = "table"

====
